---------------------------- MODULE Spec2Model ----------------------------
(***************************************************************************)
(* Model of the Whisper speech-to-text gRPC service                        *)
(* (services/stt/local): the server built by serve() in main.py around a   *)
(* bounded thread pool, and the request handler WhisperServicer.Transcribe *)
(* in servicer.py: source resolution, the engine call, and the streaming   *)
(* of one TranscriptChunk per engine segment.                              *)
(***************************************************************************)
EXTENDS Integers, Sequences, FiniteSets, TLC

(* ------------------------------ bounds -------------------------------- *)

\* Number of client requests issued to the server.
NumRequests == 2

\* Largest explicit concurrency.max_workers value in the configuration.
MaxRequested == 2

\* Largest number of segments one engine call yields.
MaxSegments == 2

\* Longest segment text (in characters) the engine reports.
MaxTextLen == 3

\* Largest number of word entries in one segment.
MaxWords == 2

\* Largest core count a probe reports.
MaxCores == 8

\* Largest explicit concurrency.cpu_threads value in the configuration.
MaxThreads == 2

RequestIds == 1..NumRequests

(* ------------------------- optional values ---------------------------- *)

\* Python's None and a present value.
None == [some |-> FALSE]
Some(v) == [some |-> TRUE, value |-> v]

(* ---------------------------- settings -------------------------------- *)

Device == {"cuda", "cpu"}

\* Faulty variant of resolve_max_workers: the device defaults are swapped.
resolve_max_workers_swapped(requested, device) ==
    IF requested # 0 THEN requested
    ELSE IF device = "cuda" THEN 2 ELSE 1

\* settings._resolve_max_workers
resolve_max_workers(requested, device) ==
    IF requested # 0 THEN requested
    ELSE IF device = "cuda" THEN 1 ELSE 2

\* The values settings.concurrency.max_workers takes for the configurations
\* considered: an explicit value, or the device default.
ResolvedMaxWorkers ==
    { resolve_max_workers(q, d) : q \in 0..MaxRequested, d \in Device }

(* ----------------------- hardware resolution ------------------------- *)

\* The host as the probes see it: whether CTranslate2 reports CUDA, the
\* machine and system names, what nvidia-smi printed (None when the command
\* failed; otherwise its lines, each a number or None for other text),
\* whether psutil can be imported, and the two core counts (None when the
\* platform reports none).
Host(cuda, arch, os, smi, psutil, physical, logical) ==
    [cuda |-> cuda, arch |-> arch, os |-> os, smi |-> smi,
     psutil |-> psutil, physical |-> physical, logical |-> logical]

\* Python's `a or b` on an optional count: a when it is neither None nor 0.
OrCount(a, b) == IF a.some /\ a.value # 0 THEN a ELSE b

\* The core count assumed when no probe reports one.
FallbackCores == 4

\* settings._physical_core_count
physical_core_count(host) ==
    IF host.psutil
    THEN OrCount(OrCount(host.physical, host.logical), Some(FallbackCores)).value
    ELSE OrCount(host.logical, Some(FallbackCores)).value

\* settings._detect_arch, on the lower-cased machine name
detect_arch(host) == IF host.arch \in {"arm64", "aarch64"} THEN "arm64" ELSE "x86_64"

\* settings._resolve_device
resolve_device(requested, host) ==
    IF requested # "auto" THEN requested
    ELSE IF host.cuda THEN "cuda" ELSE "cpu"

\* VRAM, in MB, from which float16 is chosen on a GPU.
VramThreshold == 8000

\* Faulty variant of ComputeTypeOnQueryFailure: a query that fails saves memory.
ComputeTypeOnQueryFailureSafe == "int8_float16"

\* The compute type chosen when the VRAM query raises.
ComputeTypeOnQueryFailure == "float16"

\* settings._resolve_compute_type
resolve_compute_type(requested, device, host) ==
    IF requested # "auto" THEN requested
    ELSE IF device = "cuda"
         THEN IF host.smi.some /\ host.smi.value[1].some
              THEN IF host.smi.value[1].value >= VramThreshold
                   THEN "float16" ELSE "int8_float16"
              ELSE ComputeTypeOnQueryFailure
         ELSE IF detect_arch(host) = "arm64" THEN "int8" ELSE "int8"

\* Faulty variant of HalfOfCores: no lower limit of one thread.
HalfOfCoresUnclamped(cores) == cores \div 2

\* max(1, cores // 2)
HalfOfCores(cores) == IF cores \div 2 >= 1 THEN cores \div 2 ELSE 1

\* settings._resolve_cpu_threads
resolve_cpu_threads(requested, host) ==
    IF requested # 0 THEN requested
    ELSE HalfOfCores(physical_core_count(host))

(* ------------------------ configuration loading ----------------------- *)

\* Configuration values with their Python type; a float is held in tenths.
StrVal(s) == [str |-> s]
IntVal(n) == [int |-> n]
FloatVal(x) == [float |-> x]
BoolVal(b) == [bool |-> b]

\* type(x)
TypeOf(x) == CHOOSE t \in DOMAIN x : TRUE

\* The Python value that a typed value holds.
PyValue(x) == x[TypeOf(x)]

\* The outcome of an evaluation: a value, or an exception raised.
Ok(v) == [ok |-> TRUE, v |-> v]
Raise(e) == [ok |-> FALSE, error |-> e]

\* The fields read by load_settings: section, key, the variable that
\* overrides it, and the default given to raw.get.
Field(section, key, env, default) ==
    [section |-> section, key |-> key, env |-> env, default |-> default]

Schema ==
    { Field("service", "socket_path", "WHISPER_SERVICE_SOCKET_PATH", StrVal("/tmp/whisper.sock")),
      Field("service", "log_level", "WHISPER_SERVICE_LOG_LEVEL", StrVal("info")),
      Field("model", "size", "WHISPER_MODEL_SIZE", StrVal("large-v3")),
      Field("model", "download_dir", "WHISPER_MODEL_DOWNLOAD_DIR", StrVal("/var/lib/whisper/models")),
      Field("model", "device", "WHISPER_MODEL_DEVICE", StrVal("auto")),
      Field("model", "compute_type", "WHISPER_MODEL_COMPUTE_TYPE", StrVal("auto")),
      Field("inference", "beam_size", "WHISPER_INFERENCE_BEAM_SIZE", IntVal(5)),
      Field("inference", "vad_filter", "WHISPER_INFERENCE_VAD_FILTER", BoolVal(TRUE)),
      Field("inference", "vad_min_silence_ms", "WHISPER_INFERENCE_VAD_MIN_SILENCE_MS", IntVal(500)),
      Field("inference", "no_speech_threshold", "WHISPER_INFERENCE_NO_SPEECH_THRESHOLD", FloatVal(6)),
      Field("inference", "log_prob_threshold", "WHISPER_INFERENCE_LOG_PROB_THRESHOLD", FloatVal(0 - 10)),
      Field("inference", "compression_ratio_threshold",
            "WHISPER_INFERENCE_COMPRESSION_RATIO_THRESHOLD", FloatVal(24)),
      Field("inference", "word_timestamps", "WHISPER_INFERENCE_WORD_TIMESTAMPS", BoolVal(TRUE)),
      Field("inference", "initial_prompt", "WHISPER_INFERENCE_INITIAL_PROMPT", StrVal("")),
      Field("concurrency", "max_workers", "WHISPER_CONCURRENCY_MAX_WORKERS", IntVal(0)),
      Field("concurrency", "cpu_threads", "WHISPER_CONCURRENCY_CPU_THREADS", IntVal(0)),
      Field("concurrency", "num_workers", "WHISPER_CONCURRENCY_NUM_WORKERS", IntVal(1)) }

\* The field of the schema with the given section and key.
FieldOf(section, key) ==
    CHOOSE f \in Schema : f.section = section /\ f.key = key

\* The place of a field in the Settings: settings.<section>.<key>.
Path(f) == <<f.section, f.key>>

\* dict.get(key): the value under the key, None when the key is absent.
Get(m, k) == IF k \in DOMAIN m THEN Some(m[k]) ELSE None

\* The fields load_settings passes through the hardware resolvers.
ResolvedFields ==
    { FieldOf("model", "device"), FieldOf("model", "compute_type"),
      FieldOf("concurrency", "cpu_threads"), FieldOf("concurrency", "max_workers") }

\* int(val): the number a text denotes, None where int() raises ValueError.
ParseInt(text) ==
    CASE text = "0" -> Some(0)
      [] text = "1" -> Some(1)
      [] text = "3" -> Some(3)
      [] OTHER -> None

\* float(val), in tenths: None where float() raises ValueError.
ParseFloat(text) ==
    CASE text = "0" -> Some(0)
      [] text = "1" -> Some(10)
      [] text = "3" -> Some(30)
      [] text = "0.5" -> Some(5)
      [] OTHER -> None

\* val.lower()
Lower(text) ==
    CASE text = "TRUE" -> "true"
      [] text = "Yes" -> "yes"
      [] OTHER -> text

\* The texts an environment variable holds in the configurations considered.
EnvTexts == {"0", "1", "3", "0.5", "abc", "TRUE", "Yes", "no", "cuda", ""}

\* The cast of _env: to the type of the fallback.
EnvCast(val, fallback) ==
    IF TypeOf(fallback) = "bool" THEN Ok(BoolVal(Lower(val) \in {"1", "true", "yes"}))
    ELSE IF TypeOf(fallback) = "int"
         THEN IF ParseInt(val).some THEN Ok(IntVal(ParseInt(val).value)) ELSE Raise("ValueError")
    ELSE IF TypeOf(fallback) = "float"
         THEN IF ParseFloat(val).some THEN Ok(FloatVal(ParseFloat(val).value)) ELSE Raise("ValueError")
    ELSE Ok(StrVal(val))

\* Faulty variant of env: the base configuration wins over the environment.
env_base_first(environ, f, base) ==
    IF base.some THEN Ok(base.value)
    ELSE IF ~Get(environ, f.env).some THEN Ok(f.default)
    ELSE EnvCast(Get(environ, f.env).value, f.default)

\* _env(section, key, raw_section.get(key, default)): the fallback is the
\* base value when the key is present, else the default; the variable, when
\* set, is cast to the fallback's type.
env(environ, f, base) ==
    LET fallback == IF base.some THEN base.value ELSE f.default
    IN  IF ~Get(environ, f.env).some THEN Ok(fallback)
        ELSE EnvCast(Get(environ, f.env).value, fallback)

\* A configuration: the state of the file ("absent", "unparsable" or "ok"),
\* its parsed content (the value of each field whose key is present), the
\* environment (the text of each variable that is set) and the host.
Configuration(file, raw, environ, host) ==
    [file |-> file, raw |-> raw, environ |-> environ, host |-> host]

\* settings.load_settings: the Settings (one value per field), or the
\* exception raised.
load_settings(c) ==
    IF c.file = "absent" THEN Raise("FileNotFoundError")
    ELSE IF c.file = "unparsable" THEN Raise("TOMLDecodeError")
    ELSE LET val(f) == env(c.environ, f, Get(c.raw, Path(f)))
             plain(section, key) == PyValue(val(FieldOf(section, key)).v)
             device == resolve_device(plain("model", "device"), c.host)
         IN  IF \E f \in Schema : ~val(f).ok THEN Raise("ValueError")
             ELSE Ok([p \in { Path(f) : f \in Schema } |->
                        LET f == FieldOf(p[1], p[2]) IN
                        IF f = FieldOf("model", "device") THEN StrVal(device)
                        ELSE IF f = FieldOf("model", "compute_type")
                             THEN StrVal(resolve_compute_type(plain("model", "compute_type"),
                                                           device, c.host))
                        ELSE IF f = FieldOf("concurrency", "cpu_threads")
                             THEN IntVal(resolve_cpu_threads(plain("concurrency", "cpu_threads"),
                                                          c.host))
                        ELSE IF f = FieldOf("concurrency", "max_workers")
                             THEN IntVal(resolve_max_workers(plain("concurrency", "max_workers"),
                                                          device))
                        ELSE val(f).v])

(* ---------------------------- requests -------------------------------- *)

\* Files present on the server's file system.
Files == {"/tmp/test.mp3"}

AudioPaths == {"/tmp/test.mp3", "/tmp/absent.mp3"}
AudioData == {"RIFF"}
AudioUris == {"http://host/a.mp3"}

\* A TranscribeRequest: the audio_source oneof (at most one member set; the
\* empty name when none is) and options.initial_prompt.
Request(oneof, value, prompt) ==
    [oneof |-> oneof, value |-> value, initial_prompt |-> prompt]

RequestsWith(Prompts) ==
    { Request("audio_path", p, ip) : p \in AudioPaths, ip \in Prompts }
    \cup { Request("audio_data", b, ip) : b \in AudioData, ip \in Prompts }
    \cup { Request("audio_uri", u, ip) : u \in AudioUris, ip \in Prompts }
    \cup { Request("", "", ip) : ip \in Prompts }

\* The slot of a request that no client has issued yet.
NoRequest == Request("", "", "")

\* request.WhichOneof("audio_source"): the name of the populated member,
\* None when no member is populated.
WhichOneof(request) ==
    IF request.oneof = "" THEN None ELSE Some(request.oneof)

(* ------------------------- prompt selection --------------------------- *)

\* Python's `a or b` on strings: a when a is truthy (non-empty), else b.
PyOr(a, b) == IF a # "" THEN a ELSE b

\* Faulty variant of EffectivePrompt: the configured default wins.
EffectivePromptDefaultFirst(request_prompt, default_prompt) ==
    LET s == PyOr(default_prompt, request_prompt)
    IN  IF s # "" THEN Some(s) ELSE None

\* prompt = request.options.initial_prompt or inf.initial_prompt or None
EffectivePrompt(request_prompt, default_prompt) ==
    LET s == PyOr(request_prompt, default_prompt)
    IN  IF s # "" THEN Some(s) ELSE None

(* ------------------------ segments and chunks ------------------------- *)

Whitespace == {" ", "\t", "\n", "\r"}
Chars == {" ", "a"}

RECURSIVE lstrip(_)
lstrip(s) ==
    IF s # <<>> /\ Head(s) \in Whitespace THEN lstrip(Tail(s)) ELSE s

RECURSIVE rstrip(_)
rstrip(s) ==
    IF s # <<>> /\ s[Len(s)] \in Whitespace
    THEN rstrip(SubSeq(s, 1, Len(s) - 1))
    ELSE s

\* Faulty variant of strip: trailing whitespace is kept.
stripLeadingOnly(s) == lstrip(s)

\* str.strip(): leading and trailing whitespace removed.
strip(s) == rstrip(lstrip(s))

\* One word of a segment, as the engine reports it.
EngineWord(i) == [start |-> i - 1, end |-> i, word |-> <<"a">>, probability |-> i]

\* speech_pb2.Word(...) built from an engine word.
Word(w) ==
    [start_time |-> w.start, end_time |-> w.end,
     text |-> w.word, confidence |-> w.probability]

\* `segment.words or []`: the list when it is truthy, else the empty list.
WordsOrEmpty(words) ==
    IF words.some /\ words.value # <<>> THEN words.value ELSE <<>>

\* The TranscriptChunk built for one segment.
TranscriptChunk(segment) ==
    [start_time |-> segment.start,
     end_time   |-> segment.end,
     text       |-> strip(segment.text),
     speaker_id |-> "",
     confidence |-> segment.avg_logprob,
     words      |-> [i \in 1..Len(WordsOrEmpty(segment.words)) |->
                        Word(WordsOrEmpty(segment.words)[i])]]


\* All sequences over S of length at most n.
SeqsUpTo(S, n) == UNION { [1..m -> S] : m \in 0..n }

\* The k-th segment of the canned engine output: distinct times and
\* confidences per position, padded text, word data on odd positions only.
CannedSegment(k) ==
    [start |-> k - 1, end |-> k, text |-> <<" ", "a", " ">>,
     avg_logprob |-> 0 - k,
     words |-> IF k % 2 = 1 THEN Some(<<EngineWord(k)>>) ELSE None]

CannedPool(k) == { CannedSegment(k) }

\* Every segment shape the engine may report at position k: any text over
\* Chars up to MaxTextLen, and word data absent, empty or up to MaxWords long.
AnySegment(k) ==
    { [start |-> k - 1, end |-> k, text |-> t, avg_logprob |-> 0 - k, words |-> w] :
        t \in SeqsUpTo(Chars, MaxTextLen),
        w \in {None} \cup { Some([i \in 1..n |-> EngineWord(i)]) : n \in 0..MaxWords } }

\* Arbitrary first segment, canned segments after it.
WidePool(k) == IF k = 1 THEN AnySegment(k) ELSE CannedPool(k)

\* The segments the engine may yield at position k: the canned output, or
\* the wide range of shapes.
EnginePool(wide, k) == IF wide THEN WidePool(k) ELSE CannedPool(k)

(* ------------------------------ state --------------------------------- *)

VARIABLES
    conf,            \* the configuration serve() finds: file, environment, host
    loaded,          \* what load_settings returned or raised; None before the call
    phase,           \* where serve() is in its startup
    sock,            \* the file at socket_path and its mode
    model_loaded,    \* whether WhisperServicer has loaded the model
    max_workers,     \* settings.concurrency.max_workers, the pool size
    default_prompt,  \* settings.inference.initial_prompt
    req,             \* req[r]: the TranscribeRequest of request r
    st,              \* st[r]: where request r is in its life cycle
    queue,           \* the executor's work queue (FIFO of request ids)
    free,            \* pool workers not running a handler
    audio_input,     \* audio_input[r]: what the handler passes to the engine
    engine_calls,    \* engine_calls[r]: calls of model.transcribe made for r
    engine_prompt,   \* engine_prompt[r]: initial_prompt passed to the engine
    produced,        \* produced[r]: segments the engine has yielded so far
    emitted,         \* emitted[r]: chunks the handler has yielded so far
    outcome          \* outcome[r]: status code and details the client sees

vars == <<st, queue, free, req, audio_input, engine_calls, engine_prompt,
          produced, emitted, outcome, phase, sock, model_loaded,
          max_workers, default_prompt, loaded, conf>>

\* What serve() sets up before the first request and no handler changes.
config == <<conf, loaded, phase, sock, model_loaded, max_workers, default_prompt>>

NoOutcome == [code |-> "NONE", details |-> <<>>]
NoInput == [kind |-> "unset", value |-> ""]

\* Requests whose handler occupies a pool worker.
InHandler(r) == st[r] \in {"SourceResolving", "Inferring", "Streaming"}
\* Requests inside the engine: from the transcribe call to the end of the
\* segment sequence.
InEngine(r) == st[r] \in {"Inferring", "Streaming"}
Terminal(r) == st[r] \in {"Completed", "Failed"}

\* A host without GPU reporting four cores.
PlainHost == Host(FALSE, "x86_64", "linux", None, TRUE, Some(4), Some(4))

\* A configuration file that sets max_workers and the default prompt.
ServingConfiguration(workers, prompt) ==
    Configuration("ok",
                    (<<"concurrency", "max_workers">> :> IntVal(workers))
                    @@ (<<"inference", "initial_prompt">> :> StrVal(prompt)),
                    <<>>, PlainHost)

\* The value load_settings gave field (section, key).
Setting(section, key) == PyValue(loaded.value.v[<<section, key>>])

\* The server accepts requests: server.start() has returned.
Accepting == phase \in {"chmod", "serving"}

\* The state in which serve() waits for termination, after a startup with
\* one of the serving configurations.
InitWith(Defaults) ==
    /\ conf \in { ServingConfiguration(w, d) : w \in ResolvedMaxWorkers, d \in Defaults }
    /\ loaded = Some(load_settings(conf))
    /\ phase = "serving"
    /\ sock = [file |-> "bound", mode |-> "0600"]
    /\ model_loaded = TRUE
    /\ max_workers = Setting("concurrency", "max_workers")
    /\ default_prompt = Setting("inference", "initial_prompt")
    /\ req = [r \in RequestIds |-> NoRequest]
    /\ st = [r \in RequestIds |-> "Idle"]
    /\ queue = <<>>
    /\ free = max_workers
    /\ audio_input = [r \in RequestIds |-> NoInput]
    /\ engine_calls = [r \in RequestIds |-> 0]
    /\ engine_prompt = [r \in RequestIds |-> None]
    /\ produced = [r \in RequestIds |-> <<>>]
    /\ emitted = [r \in RequestIds |-> <<>>]
    /\ outcome = [r \in RequestIds |-> NoOutcome]

(* ------------------------- the worker pool ---------------------------- *)

\* Faulty variant of SlotAvailable: a handler starts whether or not a
\* worker is idle.
SlotAlwaysAvailable == TRUE

\* Faulty variant of SlotAvailable: one worker is never used.
SlotAvailableButOne == free > 1

\* ThreadPoolExecutor(max_workers=...): a queued handler starts only on an
\* idle worker.
SlotAvailable == free > 0

\* Faulty variant of ReleaseSlot: a handler ended by an exception keeps its
\* worker.
ReleaseSlotOnSuccessOnly(code) == IF code = "OK" THEN free + 1 ELSE free

\* The worker that ran a handler returns to the pool however the handler
\* ended.
ReleaseSlot(code) == free + 1

\* A client issues request r: the server hands its handler to the pool,
\* where it waits in the work queue.
Submit(r, Prompts) ==
    /\ Accepting
    /\ st[r] = "Idle"
    /\ \E request \in RequestsWith(Prompts) :
           req' = [req EXCEPT ![r] = request]
    /\ st' = [st EXCEPT ![r] = "Waiting"]
    /\ queue' = Append(queue, r)
    /\ UNCHANGED <<config, free, audio_input, engine_calls, engine_prompt, produced,
                   emitted, outcome>>

\* A worker takes the oldest queued handler and starts running it.
Start(r) ==
    /\ queue # <<>>
    /\ Head(queue) = r
    /\ SlotAvailable
    /\ queue' = Tail(queue)
    /\ free' = free - 1
    /\ st' = [st EXCEPT ![r] = "SourceResolving"]
    /\ UNCHANGED <<config, req, audio_input, engine_calls, engine_prompt, produced,
                   emitted, outcome>>

\* Faulty variant of Ended: a failing handler takes every other running
\* handler down with it.
EndedWithOthers(r, state) ==
    [q \in RequestIds |->
        IF q = r THEN state
        ELSE IF state = "Failed" /\ InHandler(q) THEN "Failed"
        ELSE st[q]]

\* The life cycles after the handler of r ended in `state`: only r's own
\* changes.
Ended(r, state) == [st EXCEPT ![r] = state]

\* Faulty variant of InferRaise, defined below: a failed engine call is
\* made again.
InferRaiseRetry(r) ==
    /\ st[r] = "Inferring"
    /\ engine_calls' = [engine_calls EXCEPT ![r] = @ + 1]
    /\ UNCHANGED <<config, req, st, queue, free, audio_input, engine_prompt,
                   produced, emitted, outcome>>

\* The handler of r ends with the given status: the stream is closed and
\* its worker goes back to the pool.
Finish(r, state, code, details) ==
    /\ st' = Ended(r, state)
    /\ outcome' = [outcome EXCEPT ![r] = [code |-> code, details |-> details]]
    /\ free' = ReleaseSlot(code)

\* context.abort(code, details): raises, ending the handler with that status.
Abort(r, code, details) == Finish(r, "Failed", code, details)

\* An exception the handler does not catch leaves Transcribe; the handler
\* sets no status for it and the client sees the server's status for an
\* uncaught handler exception, UNKNOWN.
Propagate(r, exception) ==
    Finish(r, "Failed", "UNKNOWN", <<"Exception calling application", exception>>)


(* --------------------- WhisperServicer.Transcribe --------------------- *)

\* What requests.get(uri, timeout=15) followed by raise_for_status() does:
\* it returns the body, or raises for a transport failure, a timeout or a
\* non-success HTTP status.
FetchErrors == {"ConnectionError", "Timeout", "HTTPError"}

\* The exception classes of requests that derive from RequestException.
RequestExceptions == {"ConnectionError", "Timeout", "HTTPError"}

\* Faulty variant of CaughtByHandler: only HTTP status errors are caught.
CaughtHttpErrorOnly(e) == e = "HTTPError"

\* `except requests.RequestException as e`
CaughtByHandler(e) == e \in RequestExceptions

\* Faulty variant of PathInput: the path branch hands the engine a byte
\* stream over the inline payload field instead of the path.
PathInputFromData(request) == [kind |-> "bytes", value |-> "audio_data"]

\* audio_input = request.audio_path
PathInput(request) == [kind |-> "path", value |-> request.value]

\* audio_input = io.BytesIO(request.audio_data)
DataInput(request) == [kind |-> "bytes", value |-> "audio_data"]

\* audio_input = io.BytesIO(response.content)
UriInput(request) == [kind |-> "bytes", value |-> "response.content"]

\* The branch on audio_source_type, for a request whose source resolves
\* without I/O failure.
ToInferring(r, input) ==
    /\ audio_input' = [audio_input EXCEPT ![r] = input]
    /\ st' = [st EXCEPT ![r] = "Inferring"]
    /\ UNCHANGED <<config, req, queue, free, engine_calls, engine_prompt, produced,
                   emitted, outcome>>

\* if audio_source_type == "audio_path"
ResolvePath(r) ==
    /\ st[r] = "SourceResolving"
    /\ WhichOneof(req[r]) = Some("audio_path")
    /\ ToInferring(r, PathInput(req[r]))

\* elif audio_source_type == "audio_data"
ResolveData(r) ==
    /\ st[r] = "SourceResolving"
    /\ WhichOneof(req[r]) = Some("audio_data")
    /\ ToInferring(r, DataInput(req[r]))

\* elif audio_source_type == "audio_uri", the fetch succeeding
FetchOk(r) ==
    /\ st[r] = "SourceResolving"
    /\ WhichOneof(req[r]) = Some("audio_uri")
    /\ ToInferring(r, UriInput(req[r]))

\* elif audio_source_type == "audio_uri", the fetch raising e
FetchFail(r) ==
    /\ st[r] = "SourceResolving"
    /\ WhichOneof(req[r]) = Some("audio_uri")
    /\ \E e \in FetchErrors :
          IF CaughtByHandler(e)
          THEN Abort(r, "INVALID_ARGUMENT", <<"Failed to fetch audio URI", e>>)
          ELSE Propagate(r, e)
    /\ UNCHANGED <<config, req, queue, audio_input, engine_calls, engine_prompt, produced,
                   emitted>>

\* else: no member of the oneof is populated
NoSource(r) ==
    /\ st[r] = "SourceResolving"
    /\ WhichOneof(req[r]) = None
    /\ Abort(r, "INVALID_ARGUMENT", <<"No valid audio_source provided">>)
    /\ UNCHANGED <<config, req, queue, audio_input, engine_calls, engine_prompt, produced,
                   emitted>>

\* The engine cannot open the input: a path that names no file.
Unreadable(input) == input.kind = "path" /\ input.value \notin Files

\* self.model.transcribe(audio_input, ..., initial_prompt=prompt, ...)
\* returns the lazy segment sequence.
InferOk(r) ==
    /\ st[r] = "Inferring"
    /\ ~Unreadable(audio_input[r])
    /\ engine_calls' = [engine_calls EXCEPT ![r] = @ + 1]
    /\ engine_prompt' = [engine_prompt EXCEPT ![r] =
                            EffectivePrompt(req[r].initial_prompt, default_prompt)]
    /\ st' = [st EXCEPT ![r] = "Streaming"]
    /\ UNCHANGED <<config, req, queue, free, audio_input, produced, emitted,
                   outcome>>

\* self.model.transcribe(...) raises: always for an unreadable input,
\* possibly for any other.
InferRaise(r) ==
    /\ st[r] = "Inferring"
    /\ engine_calls' = [engine_calls EXCEPT ![r] = @ + 1]
    /\ engine_prompt' = [engine_prompt EXCEPT ![r] =
                            EffectivePrompt(req[r].initial_prompt, default_prompt)]
    /\ Propagate(r, IF Unreadable(audio_input[r])
                    THEN "FileNotFoundError" ELSE "RuntimeError")
    /\ UNCHANGED <<config, req, queue, audio_input, produced, emitted>>

\* Faulty variant of Emit: the new chunk is put in front of the stream.
EmitInFront(chunks, segment) == <<TranscriptChunk(segment)>> \o chunks

\* yield speech_pb2.TranscriptChunk(...) for the segment just produced
Emit(chunks, segment) == Append(chunks, TranscriptChunk(segment))

\* One turn of `for segment in segments`: the engine yields its next
\* segment and the handler yields the chunk built from it.
StreamNext(r, wide) ==
    /\ st[r] = "Streaming"
    /\ Len(produced[r]) < MaxSegments
    /\ \E segment \in EnginePool(wide, Len(produced[r]) + 1) :
          /\ produced' = [produced EXCEPT ![r] = Append(@, segment)]
          /\ emitted' = [emitted EXCEPT ![r] = Emit(@, segment)]
    /\ UNCHANGED <<config, req, st, queue, free, audio_input, engine_calls, engine_prompt,
                   outcome>>

\* The segment sequence is exhausted: the loop and the handler end.
StreamEnd(r) ==
    /\ st[r] = "Streaming"
    /\ Finish(r, "Completed", "OK", <<>>)
    /\ UNCHANGED <<config, req, queue, audio_input, engine_calls, engine_prompt, produced,
                   emitted>>

\* The segment sequence raises while it is consumed.
StreamRaise(r) ==
    /\ st[r] = "Streaming"
    /\ Propagate(r, "RuntimeError")
    /\ UNCHANGED <<config, req, queue, audio_input, engine_calls, engine_prompt, produced,
                   emitted>>

(* ------------------------------ serve() ------------------------------- *)

\* What the handlers own; startup leaves it alone.
requests == <<req, st, queue, audio_input, engine_calls, engine_prompt,
              produced, emitted, outcome>>

\* Faulty variant of PhaseAfterLoadFailure: startup goes on without settings.
PhaseAfterLoadFailureIgnored == "unlink"

\* An exception of load_settings leaves serve(): nothing after it runs.
PhaseAfterLoadFailure == "config_failed"

\* settings = load_settings(config_path), returning the Settings
LoadOk ==
    /\ phase = "load"
    /\ load_settings(conf).ok
    /\ loaded' = Some(load_settings(conf))
    /\ max_workers' = PyValue(load_settings(conf).v[<<"concurrency", "max_workers">>])
    /\ default_prompt' = PyValue(load_settings(conf).v[<<"inference", "initial_prompt">>])
    /\ phase' = "unlink"
    /\ UNCHANGED <<conf, sock, model_loaded, free, requests>>

\* settings = load_settings(config_path), raising
LoadFail ==
    /\ phase = "load"
    /\ ~load_settings(conf).ok
    /\ loaded' = Some(load_settings(conf))
    /\ phase' = PhaseAfterLoadFailure
    /\ UNCHANGED <<conf, sock, model_loaded, max_workers, default_prompt, free,
                   requests>>

\* if os.path.exists(socket_path): os.unlink(socket_path)
UnlinkStale ==
    /\ phase = "unlink"
    /\ sock' = IF sock.file # "absent" THEN [file |-> "absent", mode |-> "none"] ELSE sock
    /\ phase' = "create"
    /\ UNCHANGED <<conf, loaded, model_loaded, max_workers, default_prompt, free,
                   requests>>

\* server = grpc.server(ThreadPoolExecutor(max_workers=...)) and
\* add_SpeechToTextServicer_to_server(WhisperServicer(settings), server):
\* the pool has max_workers idle workers and the model is loaded.
CreateServer ==
    /\ phase = "create"
    /\ free' = max_workers
    /\ model_loaded' = TRUE
    /\ phase' = "bind"
    /\ UNCHANGED <<conf, loaded, sock, max_workers, default_prompt, requests>>

\* server.add_insecure_port(f"unix://{socket_path}"): the socket file is
\* created, with the mode the process umask gives it.
Bind ==
    /\ phase = "bind"
    /\ sock' = [file |-> "bound", mode |-> "umask"]
    /\ phase' = "start"
    /\ UNCHANGED <<conf, loaded, model_loaded, max_workers, default_prompt, free,
                   requests>>

\* server.start(): from here on requests are accepted.
StartServer ==
    /\ phase = "start"
    /\ phase' = "chmod"
    /\ UNCHANGED <<conf, loaded, sock, model_loaded, max_workers, default_prompt,
                   free, requests>>

\* os.chmod(socket_path, 0o600)
Chmod ==
    /\ phase = "chmod"
    /\ sock' = [sock EXCEPT !.mode = "0600"]
    /\ phase' = "serving"
    /\ UNCHANGED <<conf, loaded, model_loaded, max_workers, default_prompt, free,
                   requests>>

\* The startup steps of serve(), in program order.
Startup ==
    \/ LoadOk
    \/ LoadFail
    \/ UnlinkStale
    \/ CreateServer
    \/ Bind
    \/ StartServer
    \/ Chmod

\* The state in which serve() is entered with configuration c and the
\* socket path in the given state.
BootWith(c, file) ==
    /\ conf = c
    /\ loaded = None
    /\ phase = "load"
    /\ sock = [file |-> file, mode |-> IF file = "absent" THEN "none" ELSE "stale"]
    /\ model_loaded = FALSE
    /\ max_workers = 0
    /\ default_prompt = ""
    /\ req = [r \in RequestIds |-> NoRequest]
    /\ st = [r \in RequestIds |-> "Idle"]
    /\ queue = <<>>
    /\ free = 0
    /\ audio_input = [r \in RequestIds |-> NoInput]
    /\ engine_calls = [r \in RequestIds |-> 0]
    /\ engine_prompt = [r \in RequestIds |-> None]
    /\ produced = [r \in RequestIds |-> <<>>]
    /\ emitted = [r \in RequestIds |-> <<>>]
    /\ outcome = [r \in RequestIds |-> NoOutcome]

(* -------------------------- specifications ---------------------------- *)

\* The steps of the server on request r, once it was issued.
Serve(r, wide) ==
    \/ Start(r)
    \/ ResolvePath(r)
    \/ ResolveData(r)
    \/ FetchOk(r)
    \/ FetchFail(r)
    \/ NoSource(r)
    \/ InferOk(r)
    \/ InferRaise(r)
    \/ StreamNext(r, wide)
    \/ StreamEnd(r)
    \/ StreamRaise(r)

\* Concurrent clients: NumRequests requests, the canned engine output.
Init == InitWith({""})

Next ==
    \E r \in RequestIds :
        \/ Submit(r, {""})
        \/ Serve(r, FALSE)

Spec == Init /\ [][Next]_vars

\* The same, with the server making progress: while some step of the pool
\* or of a handler is possible, one is eventually taken (the pool's threads
\* run, every engine call and every fetch returns). The pool is smaller than
\* the number of clients: with a worker for each client no request waits.
LiveInit == InitWith({""}) /\ max_workers < NumRequests

LiveSpec ==
    LiveInit /\ [][Next]_vars /\ WF_vars(\E r \in RequestIds : Serve(r, FALSE))

\* One client, every prompt combination and every segment shape.
DataInit == InitWith({"", "Fallback"})

DataNext ==
    \/ Submit(1, {"", "Custom"})
    \/ Serve(1, TRUE)

DataSpec == DataInit /\ [][DataNext]_vars

(* --------------------- startup and configurations --------------------- *)

\* A value, or None.
Optional(S) == {None} \cup { Some(x) : x \in S }

\* The mapping that holds b under key k, or nothing when b is None.
Content(k, b) == IF b.some THEN k :> b.value ELSE <<>>

\* Configurations with which serve() is started: the file missing,
\* unparsable or readable, max_workers set in the file or not, and its
\* override unset, a number or no number.
BootConfigurations ==
    { Configuration(file,
                      Content(<<"concurrency", "max_workers">>, b),
                      Content("WHISPER_CONCURRENCY_MAX_WORKERS", e),
                      PlainHost) :
        file \in {"absent", "unparsable", "ok"},
        b \in Optional({IntVal(1)}),
        e \in Optional({"abc", "3"}) }

BootInit ==
    \E c \in BootConfigurations : \E file \in {"absent", "stale"} : BootWith(c, file)

\* serve() from its first line, then one client.
BootNext ==
    \/ Startup
    \/ Submit(1, {""})
    \/ Serve(1, FALSE)

BootSpec == BootInit /\ [][BootNext]_vars

\* Values a configuration file may hold for a field, of every TOML scalar
\* type.
BaseValues == {StrVal("base"), IntVal(1), FloatVal(5), BoolVal(FALSE)}

\* One field that no resolver touches, with every combination of file
\* value and override.
PlainFieldConfigurations ==
    { Configuration("ok", Content(Path(f), b), Content(f.env, e), PlainHost) :
        f \in Schema \ ResolvedFields,
        b \in Optional(BaseValues),
        e \in Optional(EnvTexts) }

\* Hosts that differ in what the device probe sees.
DeviceHosts ==
    { Host(cuda, arch, os, None, TRUE, Some(4), Some(4)) :
        cuda \in BOOLEAN, arch \in {"x86_64", "arm64", "aarch64"},
        os \in {"linux", "darwin"} }

DeviceConfigurations ==
    { Configuration("ok", Content(<<"model", "device">>, b),
                      Content("WHISPER_MODEL_DEVICE", e), host) :
        b \in Optional({StrVal("auto"), StrVal("cuda"), StrVal("cpu")}),
        e \in Optional(EnvTexts),
        host \in DeviceHosts }

\* What nvidia-smi may print: nothing usable (the command failed), a line
\* that is no number, or one or two lines of numbers around the threshold.
SmiOutputs ==
    {None, Some(<<None>>), Some(<<None, Some(VramThreshold)>>)}
    \cup { Some(<<Some(n)>>) : n \in {0, VramThreshold - 1, VramThreshold, VramThreshold + 1} }
    \cup { Some(<<Some(VramThreshold - 1), Some(VramThreshold)>>),
           Some(<<Some(VramThreshold), Some(0)>>) }

ComputeHosts ==
    { Host(cuda, arch, "linux", smi, TRUE, Some(4), Some(4)) :
        cuda \in BOOLEAN, arch \in {"x86_64", "arm64"}, smi \in SmiOutputs }

ComputeConfigurations ==
    { Configuration("ok",
                      Content(<<"model", "compute_type">>, b)
                      @@ Content(<<"model", "device">>, d),
                      Content("WHISPER_MODEL_COMPUTE_TYPE", e), host) :
        b \in Optional({StrVal("auto"), StrVal("float32")}),
        d \in Optional({StrVal("cuda"), StrVal("cpu")}),
        e \in Optional({"int8", "auto"}),
        host \in ComputeHosts }

CoreHosts ==
    { Host(FALSE, "x86_64", "linux", None, psutil, physical, logical) :
        psutil \in BOOLEAN,
        physical \in Optional(0..MaxCores),
        logical \in Optional({2}) }

ThreadsConfigurations ==
    { Configuration("ok", Content(<<"concurrency", "cpu_threads">>, b),
                      Content("WHISPER_CONCURRENCY_CPU_THREADS", e), host) :
        b \in Optional({ IntVal(n) : n \in 0..MaxThreads }),
        e \in Optional({"0", "3", "abc"}),
        host \in CoreHosts }

WorkersConfigurations ==
    { Configuration("ok",
                      Content(<<"concurrency", "max_workers">>, b)
                      @@ Content(<<"model", "device">>, d),
                      Content("WHISPER_CONCURRENCY_MAX_WORKERS", e),
                      Host(cuda, "x86_64", "linux", None, TRUE, Some(4), Some(4))) :
        b \in Optional({ IntVal(n) : n \in 0..MaxRequested }),
        d \in Optional({StrVal("auto"), StrVal("cuda"), StrVal("cpu")}),
        e \in Optional({"0", "3", "abc"}),
        cuda \in BOOLEAN }

UnreadableConfigurations ==
    { Configuration(file, <<>>, <<>>, PlainHost) : file \in {"absent", "unparsable"} }

\* load_settings on its own, over all these configurations.
ConfigInit ==
    \E c \in PlainFieldConfigurations \cup DeviceConfigurations
             \cup ComputeConfigurations \cup ThreadsConfigurations
             \cup WorkersConfigurations \cup UnreadableConfigurations :
        BootWith(c, "absent")

ConfigNext ==
    \/ LoadOk
    \/ LoadFail

ConfigSpec == ConfigInit /\ [][ConfigNext]_vars


(* ------------------------------ claims -------------------------------- *)

EngineBusy == { r \in RequestIds : InEngine(r) }
HandlerBusy == { r \in RequestIds : InHandler(r) }

\* C1: at any moment at most max_workers requests are inside an engine
\* invocation (from the transcribe call to the end of their segment
\* sequence), whatever the clients do.
C1_EngineCallsBounded == Cardinality(EngineBusy) <= max_workers

\* C1 witness: the limit is reached while a further request waits.
C1_Witness ==
    /\ Cardinality(EngineBusy) = max_workers
    /\ \E r \in RequestIds : st[r] = "Waiting"

\* C2: every request gives back exactly the worker it took, on every way
\* its handler ends: the idle workers plus the running handlers always add
\* up to max_workers, so with no request in progress every worker is idle.
C2_SlotsReleased ==
    /\ free + Cardinality(HandlerBusy) = max_workers
    /\ (HandlerBusy = {} => free = max_workers)

\* C2 witness: one request failed in mid-stream after a chunk, another was
\* aborted during source resolution, and nothing is in progress.
C2_Witness ==
    /\ HandlerBusy = {}
    /\ \E r \in RequestIds :
          st[r] = "Failed" /\ outcome[r].code = "UNKNOWN" /\ Len(emitted[r]) > 0
    /\ \E r \in RequestIds :
          st[r] = "Failed" /\ outcome[r].code = "INVALID_ARGUMENT"

\* The chunks of the segments s, in order.
ChunksOf(s) == [i \in 1..Len(s) |-> TranscriptChunk(s[i])]

\* C3: a request that has to wait for a worker is never dropped: it
\* eventually reaches a terminal state, and when that state is Completed
\* the client got every chunk of its segments with status OK.
C3_WaitingCompletes ==
    \A r \in RequestIds :
        (st[r] = "Waiting") ~>
            (/\ Terminal(r)
             /\ st[r] = "Completed" =>
                   /\ outcome[r].code = "OK"
                   /\ emitted[r] = ChunksOf(produced[r]))

\* C3 witness: every worker is busy, one of them streaming, while a request
\* beyond the limit waits.
C3_Witness ==
    \E r, q \in RequestIds :
        /\ st[r] = "Waiting"
        /\ free = 0
        /\ st[q] = "Streaming"
        /\ Len(emitted[q]) = 1

\* C4: the chunks emitted for a request are exactly the mappings of the
\* segments its engine call produced, in the same order, none reordered,
\* duplicated or dropped and none added once the sequence is exhausted.
C4_ChunksInOrder ==
    \A r \in RequestIds :
        /\ Len(emitted[r]) = Len(produced[r])
        /\ \A i \in 1..Len(produced[r]) :
              emitted[r][i] = TranscriptChunk(produced[r][i])

\* C4 witness: a completed request whose engine call produced two segments.
C4_Witness ==
    \E r \in RequestIds : st[r] = "Completed" /\ Len(produced[r]) >= 2

\* Request r is past source resolution.
Resolved(r) == st[r] \in {"Inferring", "Streaming", "Completed", "Failed"}

\* C5: a request with one source variant populated is resolved along that
\* variant only (the path itself, a stream over the inline bytes, a stream
\* over the fetched body), and a request with none fails with
\* invalid-argument without the engine being called.
C5_SourceSelection ==
    \A r \in RequestIds :
        Resolved(r) =>
            /\ req[r].oneof = "audio_path" =>
                  audio_input[r] = [kind |-> "path", value |-> req[r].value]
            /\ req[r].oneof = "audio_data" =>
                  audio_input[r] = [kind |-> "bytes", value |-> "audio_data"]
            /\ req[r].oneof = "audio_uri" =>
                  \/ audio_input[r] = [kind |-> "bytes", value |-> "response.content"]
                  \/ audio_input[r] = NoInput /\ st[r] = "Failed"
            /\ req[r].oneof = "" =>
                  /\ st[r] = "Failed"
                  /\ outcome[r] = [code |-> "INVALID_ARGUMENT",
                                   details |-> <<"No valid audio_source provided">>]
                  /\ audio_input[r] = NoInput
                  /\ engine_calls[r] = 0

\* C5 witness: a request without a source was refused and a request with a
\* path is inside the engine.
C5_Witness ==
    /\ \E r \in RequestIds : req[r].oneof = "" /\ st[r] = "Failed"
    /\ \E r \in RequestIds : req[r].oneof = "audio_path" /\ st[r] = "Streaming"

\* Request r failed while its audio_uri was fetched.
FetchFailed(r) ==
    req[r].oneof = "audio_uri" /\ st[r] = "Failed" /\ audio_input[r] = NoInput

\* C6: a request whose audio_uri could not be fetched ends with
\* invalid-argument and the upstream error in its details, never with
\* another status.
C6_FetchFailureIsInvalidArgument ==
    \A r \in RequestIds :
        FetchFailed(r) =>
            /\ outcome[r].code = "INVALID_ARGUMENT"
            /\ \E e \in FetchErrors :
                  outcome[r].details = <<"Failed to fetch audio URI", e>>
            /\ engine_calls[r] = 0

\* C6 witness: a fetch that timed out.
C6_Witness ==
    \E r \in RequestIds :
        /\ FetchFailed(r)
        /\ outcome[r].details = <<"Failed to fetch audio URI", "Timeout">>

\* Request r names a local file that does not exist.
AbsentPath(r) == req[r].oneof = "audio_path" /\ req[r].value \notin Files

\* C7: a request whose audio_path names no file fails during source
\* resolution with invalid-argument and never reaches Inferring.
C7_AbsentPathIsInvalidArgument ==
    \A r \in RequestIds :
        AbsentPath(r) =>
            /\ st[r] \notin {"Inferring", "Streaming", "Completed"}
            /\ engine_calls[r] = 0
            /\ st[r] = "Failed" => outcome[r].code = "INVALID_ARGUMENT"

\* C8: a request whose engine call raised, at the call or while its
\* segments were consumed, is Failed with status internal.
C8_EngineFailureIsInternal ==
    \A r \in RequestIds :
        (st[r] = "Failed" /\ engine_calls[r] > 0) => outcome[r].code = "INTERNAL"

\* C9: the initial prompt the engine is called with is the request's when
\* that is non-empty, else the configured default when that is non-empty,
\* else None.
C9_PromptFallback ==
    \A r \in RequestIds :
        engine_calls[r] > 0 =>
            engine_prompt[r] =
                IF req[r].initial_prompt # "" THEN Some(req[r].initial_prompt)
                ELSE IF default_prompt # "" THEN Some(default_prompt)
                ELSE None

\* C9 witness: the engine was called for a request with its own prompt
\* while a default is configured.
C9_Witness ==
    \E r \in RequestIds :
        /\ engine_calls[r] > 0
        /\ req[r].initial_prompt = "Custom"
        /\ default_prompt = "Fallback"

\* s consists of whitespace only.
Blank(s) == \A i \in 1..Len(s) : s[i] \in Whitespace

\* t is s without its leading and trailing whitespace.
IsStripped(t, s) ==
    /\ \E a \in 0..Len(s) : \E b \in 0..Len(s) :
          /\ a + Len(t) + b = Len(s)
          /\ Blank(SubSeq(s, 1, a))
          /\ t = SubSeq(s, a + 1, a + Len(t))
          /\ Blank(SubSeq(s, a + Len(t) + 1, Len(s)))
    /\ t # <<>> => t[1] \notin Whitespace /\ t[Len(t)] \notin Whitespace

\* The number of word entries a segment reports, none when the data is absent.
WordCount(segment) == IF segment.words.some THEN Len(segment.words.value) ELSE 0

\* C10: every emitted chunk is the fixed mapping of its segment: stripped
\* text, copied times, the average log-probability as confidence, an empty
\* speaker_id, and one word entry per engine word in order, the empty list
\* when the segment has no word data.
C10_ChunkMapping ==
    \A r \in RequestIds :
        \A i \in 1..Len(emitted[r]) :
            LET c == emitted[r][i]
                s == produced[r][i]
            IN  /\ i <= Len(produced[r])
                /\ IsStripped(c.text, s.text)
                /\ c.start_time = s.start
                /\ c.end_time = s.end
                /\ c.confidence = s.avg_logprob
                /\ c.speaker_id = ""
                /\ Len(c.words) = WordCount(s)
                /\ \A j \in 1..Len(c.words) :
                      c.words[j] = [start_time |-> s.words.value[j].start,
                                    end_time   |-> s.words.value[j].end,
                                    text       |-> s.words.value[j].word,
                                    confidence |-> s.words.value[j].probability]

\* C10 witness: a chunk was emitted for a padded segment without word data.
C10_Witness ==
    \E r \in RequestIds :
        /\ Len(emitted[r]) >= 1
        /\ produced[r][1].text = <<" ", "a", " ">>
        /\ ~produced[r][1].words.some


\* C11: a step in which a request fails (missing source, failed fetch,
\* engine error) changes nothing of any other request: their life cycle,
\* segments, chunks and status stay as they were, the work queue is kept
\* and the failed request's worker returns to the pool for later requests;
\* the server stays in the phase it was in.
C11_ErrorsIsolated ==
    [][\A r \in RequestIds :
          (st[r] # "Failed" /\ st'[r] = "Failed") =>
              /\ \A q \in RequestIds \ {r} :
                    /\ st'[q] = st[q]
                    /\ produced'[q] = produced[q]
                    /\ emitted'[q] = emitted[q]
                    /\ outcome'[q] = outcome[q]
              /\ queue' = queue
              /\ free' = free + 1
              /\ phase' = phase]_vars

\* C11 witness: one request failed and another, served by the same server,
\* completed with all its chunks.
C11_Witness ==
    \E r, q \in RequestIds :
        /\ st[r] = "Failed"
        /\ st[q] = "Completed"
        /\ Len(emitted[q]) >= 2
        /\ emitted[q] = ChunksOf(produced[q])

\* Request r failed before the engine was reached: no source, or a failed
\* fetch.
ResolutionFailed(r) == st[r] = "Failed" /\ audio_input[r] = NoInput

\* C19: the engine is called at most once per request, also after a
\* failure, and a request whose source resolution failed has no engine call
\* and no chunk.
C19_EngineCalledAtMostOnce ==
    \A r \in RequestIds :
        /\ engine_calls[r] <= 1
        /\ ResolutionFailed(r) => engine_calls[r] = 0 /\ emitted[r] = <<>>

\* C19 witness: one request failed in its single engine call, another
\* failed in source resolution.
C19_Witness ==
    /\ \E r \in RequestIds :
          st[r] = "Failed" /\ engine_calls[r] = 1 /\ outcome[r].code = "UNKNOWN"
    /\ \E r \in RequestIds : ResolutionFailed(r) /\ engine_calls[r] = 0

\* load_settings returned the Settings.
LoadSucceeded == loaded.some /\ loaded.value.ok

\* load_settings raised.
LoadFailed == loaded.some /\ ~loaded.value.ok

\* C12: the model is loaded, the socket bound and a request accepted only
\* after load_settings returned the Settings; when it raised, serve() has
\* stopped: no model, no bound socket, no request accepted.
C12_LoadPrecedesServing ==
    /\ (model_loaded \/ sock.file = "bound" \/ Accepting
        \/ \E r \in RequestIds : st[r] # "Idle") => LoadSucceeded
    /\ LoadFailed =>
          /\ phase = "config_failed"
          /\ ~model_loaded
          /\ sock.file # "bound"
          /\ \A r \in RequestIds : st[r] = "Idle"

\* C12 witness: the file was read but a value in it or over it is invalid,
\* and serve() has stopped.
C12_Witness ==
    /\ LoadFailed
    /\ loaded.value.error = "ValueError"
    /\ phase = "config_failed"

\* C18: a stale socket file is gone when the server is bound, and the
\* server accepts requests only on a socket whose mode is 0600.
C18_RestrictedBeforeAccepting ==
    /\ sock.file = "bound" => sock.mode # "stale"
    /\ (Accepting \/ \E r \in RequestIds : st[r] # "Idle") => sock.mode = "0600"

\* What the file and the environment give for field f before any resolver:
\* the override cast as _env casts it, else the base value, else the default.
\* Defined where the cast succeeds.
Requested(f) ==
    LET fallback == IF Get(conf.raw, Path(f)).some THEN Get(conf.raw, Path(f)).value ELSE f.default
    IN  IF Get(conf.environ, f.env).some
        THEN EnvCast(Get(conf.environ, f.env).value, fallback).v
        ELSE fallback

\* Field f asks for its value to be detected.
IsAuto(f) == Requested(f) \in {StrVal("auto"), IntVal(0)}

\* C13: in the Settings returned, every field that is not left to
\* detection holds the value of its override when the variable is set, else
\* the value of the file when the key is present, else the default.
C13_ResolutionOrder ==
    LoadSucceeded =>
        \A f \in Schema :
            (f \in ResolvedFields /\ IsAuto(f))
            \/ loaded.value.v[Path(f)] =
                  (IF Get(conf.environ, f.env).some THEN Requested(f)
                   ELSE IF Get(conf.raw, Path(f)).some THEN Get(conf.raw, Path(f)).value
                   ELSE f.default)

\* C13 witness: a field set in the file and overridden holds the override,
\* which is neither the file's value nor the default.
C13_Witness ==
    /\ LoadSucceeded
    /\ \E f \in Schema :
          /\ Get(conf.environ, f.env).some
          /\ Get(conf.raw, Path(f)).some
          /\ loaded.value.v[Path(f)] # Get(conf.raw, Path(f)).value
          /\ loaded.value.v[Path(f)] # f.default
          /\ loaded.value.v[Path(f)] = Requested(f)

\* The type a field is declared with in its dataclass; the defaults given
\* to raw.get have these types.
DeclaredType(f) == TypeOf(f.default)

\* The text t read as a value of the declared type, None where it is no
\* number of a numeric type.
CastTo(type, text) ==
    CASE type = "bool" -> Some(BoolVal(Lower(text) \in {"1", "true", "yes"}))
      [] type = "int" ->
            IF ParseInt(text).some THEN Some(IntVal(ParseInt(text).value)) ELSE None
      [] type = "float" ->
            IF ParseFloat(text).some THEN Some(FloatVal(ParseFloat(text).value)) ELSE None
      [] OTHER -> Some(StrVal(text))

\* C14: an override is cast to the declared type of its field whatever the
\* file holds for it: load_settings raises when the text is no number of a
\* numeric field, and otherwise returns the text read as the declared type.
C14_CastToDeclaredType ==
    loaded.some =>
        \A f \in Schema \ ResolvedFields :
            Get(conf.environ, f.env).some =>
                LET cast == CastTo(DeclaredType(f), Get(conf.environ, f.env).value)
                IN  IF cast.some
                    THEN LoadSucceeded /\ loaded.value.v[Path(f)] = cast.value
                    ELSE LoadFailed

\* The device in the Settings returned.
ResolvedDevice == loaded.value.v[<<"model", "device">>].str

\* C15: max_workers is the requested number when that is not 0, and for 0
\* it is 1 on cuda and 2 on cpu.
C15_MaxWorkers ==
    LoadSucceeded =>
        LET n == Requested(FieldOf("concurrency", "max_workers")).int
            result == loaded.value.v[<<"concurrency", "max_workers">>].int
        IN  /\ n # 0 => result = n
            /\ (n = 0 /\ ResolvedDevice = "cuda") => result = 1
            /\ (n = 0 /\ ResolvedDevice = "cpu") => result = 2

\* C15 witness: max_workers was left at 0 on a cuda device.
C15_Witness ==
    /\ LoadSucceeded
    /\ Requested(FieldOf("concurrency", "max_workers")).int = 0
    /\ ResolvedDevice = "cuda"
    /\ loaded.value.v[<<"concurrency", "max_workers">>].int = 1

\* The physical core count the probe reports on the host.
ProbedCores == physical_core_count(conf.host)

\* C16: cpu_threads is the requested number when that is not 0; for 0 it
\* is half the physical core count, rounded down, and at least 1: 4 on
\* eight cores, 1 on one core.
C16_CpuThreads ==
    LoadSucceeded =>
        LET n == Requested(FieldOf("concurrency", "cpu_threads")).int
            result == loaded.value.v[<<"concurrency", "cpu_threads">>].int
        IN  /\ n # 0 => result = n
            /\ n = 0 =>
                  /\ result >= 1
                  /\ result >= ProbedCores \div 2
                  /\ result = 1 \/ result = ProbedCores \div 2
                  /\ ProbedCores = 8 => result = 4
                  /\ ProbedCores = 1 => result = 1

\* C16 witness: cpu_threads was left at 0 on a host with one physical core.
C16_Witness ==
    /\ LoadSucceeded
    /\ Requested(FieldOf("concurrency", "cpu_threads")).int = 0
    /\ conf.host.psutil
    /\ conf.host.physical = Some(1)
    /\ loaded.value.v[<<"concurrency", "cpu_threads">>].int = 1

\* The VRAM query gave no number: nvidia-smi failed, or its first line is
\* no number.
QueryFailed == ~conf.host.smi.some \/ ~conf.host.smi.value[1].some

\* C17: compute_type is the requested one when that is not auto; for auto
\* it is int8 on cpu, whatever the architecture, and on cuda float16 from
\* 8000 MB of VRAM, int8_float16 below, and float16 when the query failed.
C17_ComputeType ==
    LoadSucceeded =>
        LET asked == Requested(FieldOf("model", "compute_type")).str
            result == loaded.value.v[<<"model", "compute_type">>].str
        IN  /\ asked # "auto" => result = asked
            /\ (asked = "auto" /\ ResolvedDevice = "cpu") => result = "int8"
            /\ (asked = "auto" /\ ResolvedDevice = "cuda") =>
                  IF QueryFailed THEN result = "float16"
                  ELSE IF conf.host.smi.value[1].value >= 8000
                       THEN result = "float16"
                       ELSE result = "int8_float16"

\* C17 witness: compute_type was auto on cuda and nvidia-smi printed a
\* first line that is no number.
C17_Witness ==
    /\ LoadSucceeded
    /\ Requested(FieldOf("model", "compute_type")).str = "auto"
    /\ ResolvedDevice = "cuda"
    /\ conf.host.smi.some
    /\ ~conf.host.smi.value[1].some
    /\ loaded.value.v[<<"model", "compute_type">>].str = "float16"

=============================================================================
